---- MODULE Spec2Model ----
(***************************************************************************)
(* A model of DownloadHelper (src/download-helper.js): the download        *)
(* orchestration with its DOM / object-URL / timer collaborators, and the  *)
(* pure helpers it is built from.  JavaScript strings are sequences of     *)
(* one-character strings, so that case folding, substring search and the   *)
(* regular-expression replacements are computed character by character.    *)
(***************************************************************************)
EXTENDS Integers, Sequences, FiniteSets, TLC

VARIABLES
    arg,          \* the arguments of the helper call under study
    ret,          \* what that call produced
    calls,        \* one record per completed downloadFile invocation
    body,         \* anchors attached to document.body (by invocation id)
    liveURLs,     \* object URLs created and not yet revoked
    revocations,  \* log of URL.revokeObjectURL calls: <<url, timer owner>>
    timers,       \* pending one-shot timers: [owner, url]
    urlCount      \* number of object URLs handed out by URL.createObjectURL

vars == <<arg, ret, calls, body, liveURLs, revocations, timers, urlCount>>

-----------------------------------------------------------------------------
(* Bounds of the model. *)

MaxCalls == 2
MaxSegs == 3
MaxParts == 3

-----------------------------------------------------------------------------
(* JavaScript strings and values. *)

UpperLetters == <<"A","B","C","D","E","F","G","H","I","J","K","L","M","N","O","P","Q","R","S","T","U","V","W","X","Y","Z">>
LowerLetters == <<"a","b","c","d","e","f","g","h","i","j","k","l","m","n","o","p","q","r","s","t","u","v","w","x","y","z">>
DigitChars == <<"0","1","2","3","4","5","6","7","8","9">>

Range(s) == {s[i] : i \in 1..Len(s)}

IndexIn(s, c) == CHOOSE i \in 1..Len(s) : s[i] = c

UpperSet == Range(UpperLetters)
LowerSet == Range(LowerLetters)
LowerOf == [c \in UpperSet |-> LowerLetters[IndexIn(UpperLetters, c)]]
UpperOf == [c \in LowerSet |-> UpperLetters[IndexIn(LowerLetters, c)]]

toLowerChar(c) == IF c \in UpperSet THEN LowerOf[c] ELSE c

toUpperChar(c) == IF c \in LowerSet THEN UpperOf[c] ELSE c

RECURSIVE MapChars(_, _)
MapChars(s, lower) ==
    IF s = <<>> THEN <<>>
    ELSE <<IF lower THEN toLowerChar(Head(s)) ELSE toUpperChar(Head(s))>>
             \o MapChars(Tail(s), lower)

\* String.prototype.toLowerCase
toLowerCase(s) == MapChars(s, TRUE)

\* String.prototype.includes
includes(s, sub) ==
    \E i \in 1..(Len(s) - Len(sub) + 1) : SubSeq(s, i, i + Len(sub) - 1) = sub

\* String.prototype.startsWith
startsWith(s, prefix) ==
    Len(s) >= Len(prefix) /\ SubSeq(s, 1, Len(prefix)) = prefix

\* String.prototype.substring(0, n)
substring0(s, n) == SubSeq(s, 1, IF Len(s) < n THEN Len(s) ELSE n)

Str(s) == [t |-> "string", s |-> s]
Undefined == [t |-> "undefined"]
Null == [t |-> "null"]
Num(n) == [t |-> "number", n |-> n]
\* A property found on Object.prototype rather than on the object itself.
Inherited(name) == [t |-> "object", name |-> name]

\* ToBoolean, as used by !x and x || y
Truthy(v) ==
    CASE v.t = "undefined" -> FALSE
      [] v.t = "null" -> FALSE
      [] v.t = "string" -> v.s # <<>>
      [] v.t = "number" -> v.n # 0
      [] OTHER -> TRUE

\* The properties every object literal inherits from Object.prototype.
ObjectPrototypeProps ==
    { <<"c","o","n","s","t","r","u","c","t","o","r">>, <<"_","_","p","r","o","t","o","_","_">>, <<"t","o","S","t","r","i","n","g">>, <<"v","a","l","u","e","O","f">>, <<"h","a","s","O","w","n","P","r","o","p","e","r","t","y">>,
      <<"i","s","P","r","o","t","o","t","y","p","e","O","f">>, <<"t","o","L","o","c","a","l","e","S","t","r","i","n","g">>, <<"p","r","o","p","e","r","t","y","I","s","E","n","u","m","e","r","a","b","l","e">> }

\* table[key] on an object literal: own properties first, then the prototype.
GetProperty(table, key) ==
    IF \E p \in table : p[1] = key
    THEN Str((CHOOSE p \in table : p[1] = key)[2])
    ELSE IF key \in ObjectPrototypeProps THEN Inherited(key)
    ELSE Undefined

\* String(v), as a template literal and the DOM apply it
StringOf(v) ==
    CASE v.t = "string" -> v.s
      [] v.t = "undefined" -> <<"u","n","d","e","f","i","n","e","d">>
      [] v.t = "null" -> <<"n","u","l","l">>
      [] v.t = "object" /\ v.name = <<"_","_","p","r","o","t","o","_","_">> -> <<"[","o","b","j","e","c","t"," ","O","b","j","e","c","t","]">>
      [] OTHER -> <<"f","u","n","c","t","i","o","n"," ">> \o v.name \o <<"(",")"," ","{"," ","[","n","a","t","i","v","e"," ","c","o","d","e","]"," ","}">>

-----------------------------------------------------------------------------
(* Format resolution. *)

extensions ==
    { <<<<"j","p","e","g">>, <<"j","p","g">>>>, <<<<"j","p","g">>, <<"j","p","g">>>>, <<<<"p","n","g">>, <<"p","n","g">>>>,
      <<<<"w","e","b","p">>, <<"w","e","b","p">>>>, <<<<"g","i","f">>, <<"g","i","f">>>>, <<<<"p","d","f">>, <<"p","d","f">>>>,
      <<<<"t","x","t">>, <<"t","x","t">>>>, <<<<"t","e","x","t">>, <<"t","x","t">>>>, <<<<"j","s","o","n">>, <<"j","s","o","n">>>> }

mimeTypes ==
    { <<<<"j","p","e","g">>, <<"i","m","a","g","e","/","j","p","e","g">>>>, <<<<"j","p","g">>, <<"i","m","a","g","e","/","j","p","e","g">>>>,
      <<<<"p","n","g">>, <<"i","m","a","g","e","/","p","n","g">>>>, <<<<"w","e","b","p">>, <<"i","m","a","g","e","/","w","e","b","p">>>>,
      <<<<"g","i","f">>, <<"i","m","a","g","e","/","g","i","f">>>>, <<<<"p","d","f">>, <<"a","p","p","l","i","c","a","t","i","o","n","/","p","d","f">>>>,
      <<<<"t","x","t">>, <<"t","e","x","t","/","p","l","a","i","n">>>>, <<<<"t","e","x","t">>, <<"t","e","x","t","/","p","l","a","i","n">>>>,
      <<<<"j","s","o","n">>, <<"a","p","p","l","i","c","a","t","i","o","n","/","j","s","o","n">>>> }

getFileExtension(format) ==
    LET v == GetProperty(extensions, toLowerCase(format))
    IN  IF Truthy(v) THEN v ELSE Str(<<"f","i","l","e">>)

getMimeType(format) ==
    LET v == GetProperty(mimeTypes, toLowerCase(format))
    IN  IF Truthy(v) THEN v ELSE Str(<<"a","p","p","l","i","c","a","t","i","o","n","/","o","c","t","e","t","-","s","t","r","e","a","m">>)

-----------------------------------------------------------------------------
(* Filename sanitization. *)

FilenameLimit == 50

SafeChars == UpperSet \cup LowerSet \cup Range(DigitChars) \cup {"-", "_"}

\* Start positions at which /\.[^/.]+$/ matches: a dot, at least one more
\* character, and no slash or dot from there to the end of the string.
ExtensionMatches(s) ==
    { i \in 1..Len(s) :
        /\ s[i] = "."
        /\ i < Len(s)
        /\ \A j \in (i + 1)..Len(s) : s[j] \notin {"/", "."} }

\* A variant that cuts at the first dot of the name instead of the last.
StripFromFirstDot(s) ==
    IF "." \notin Range(s) THEN s
    ELSE SubSeq(s, 1, (CHOOSE k \in 1..Len(s) :
                          s[k] = "." /\ \A m \in 1..(k - 1) : s[m] # ".") - 1)

\* .replace(/\.[^/.]+$/, ""): the leftmost match is removed.
StripExtension(s) ==
    IF ExtensionMatches(s) = {} THEN s
    ELSE LET i == CHOOSE k \in ExtensionMatches(s) :
                      \A m \in ExtensionMatches(s) : k <= m
         IN  SubSeq(s, 1, i - 1)

RECURSIVE ReplaceSpecial(_)
\* .replace(/[^a-zA-Z0-9-_]/g, "_")
ReplaceSpecial(s) ==
    IF s = <<>> THEN <<>>
    ELSE <<IF Head(s) \in SafeChars THEN Head(s) ELSE "_">>
             \o ReplaceSpecial(Tail(s))

\* A variant without the length limit.
cleanFilenameUncut(filename) == ReplaceSpecial(StripExtension(filename))

cleanFilename(filename) ==
    substring0(ReplaceSpecial(StripExtension(filename)), FilenameLimit)

-----------------------------------------------------------------------------
(* Error suggestions. *)

SecurityHint == "Please try a different image or check browser security settings."
FormatHint == "This format may not be supported by your browser. Try a different format."
SizeHint == "The file might be too large. Try a smaller image or lower quality."
GenericHint == "Please try again or use a different file."

\* A variant that tests the size keywords before the format keywords.
getErrorSuggestionSizeFirst(error) ==
    LET errorMsg == toLowerCase(error.message)
    IN  IF includes(errorMsg, <<"s","e","c","u","r","i","t","y">>) \/ includes(errorMsg, <<"c","r","o","s","s","-","o","r","i","g","i","n">>)
        THEN SecurityHint
        ELSE IF includes(errorMsg, <<"s","i","z","e">>) \/ includes(errorMsg, <<"l","a","r","g","e">>)
        THEN SizeHint
        ELSE IF includes(errorMsg, <<"s","u","p","p","o","r","t","e","d">>) \/ includes(errorMsg, <<"f","o","r","m","a","t">>)
        THEN FormatHint
        ELSE GenericHint

getErrorSuggestion(error) ==
    LET errorMsg == toLowerCase(error.message)
    IN  IF includes(errorMsg, <<"s","e","c","u","r","i","t","y">>) \/ includes(errorMsg, <<"c","r","o","s","s","-","o","r","i","g","i","n">>)
        THEN SecurityHint
        ELSE IF includes(errorMsg, <<"s","u","p","p","o","r","t","e","d">>) \/ includes(errorMsg, <<"f","o","r","m","a","t">>)
        THEN FormatHint
        ELSE IF includes(errorMsg, <<"s","i","z","e">>) \/ includes(errorMsg, <<"l","a","r","g","e">>)
        THEN SizeHint
        ELSE GenericHint

-----------------------------------------------------------------------------
(* Failures raised by the host environment. *)

Error(name, message) == [name |-> name, message |-> message]
NoError == Error("", <<>>)

\* A variant of the validation message that names the parameters.
MissingParametersReworded ==
    Error("Error", <<"M","i","s","s","i","n","g"," ","r","e","q","u","i","r","e","d"," ","p","a","r","a","m","e","t","e","r","s",":"," ","d","a","t","a",","," ","f","i","l","e","n","a","m","e",","," ","f","o","r","m","a","t">>)

MissingParameters == Error("Error", <<"M","i","s","s","i","n","g"," ","r","e","q","u","i","r","e","d"," ","p","a","r","a","m","e","t","e","r","s"," ","f","o","r"," ","d","o","w","n","l","o","a","d">>)
FormatNotString == Error("TypeError", <<"f","o","r","m","a","t",".","t","o","L","o","w","e","r","C","a","s","e"," ","i","s"," ","n","o","t"," ","a"," ","f","u","n","c","t","i","o","n">>)
FilenameNotString == Error("TypeError", <<"f","i","l","e","n","a","m","e",".","r","e","p","l","a","c","e"," ","i","s"," ","n","o","t"," ","a"," ","f","u","n","c","t","i","o","n">>)
OptionsIsNull == Error("TypeError", <<"C","a","n","n","o","t"," ","r","e","a","d"," ","p","r","o","p","e","r","t","i","e","s"," ","o","f"," ","n","u","l","l"," ","(","r","e","a","d","i","n","g"," ","'","q","u","a","l","i","t","y","'",")">>)

\* What a collaborator may throw.
SecurityError == Error("SecurityError", <<"T","h","e"," ","o","p","e","r","a","t","i","o","n"," ","i","s"," ","i","n","s","e","c","u","r","e",".">>)
NotSupported == Error("NotSupportedError", <<"F","o","r","m","a","t"," ","n","o","t"," ","s","u","p","p","o","r","t","e","d">>)
TooLarge == Error("RangeError", <<"C","a","n","v","a","s"," ","s","i","z","e"," ","t","o","o"," ","l","a","r","g","e">>)
HostFailure == Error("TypeError", <<"F","a","i","l","e","d"," ","t","o"," ","e","x","e","c","u","t","e">>)
HostErrors == {SecurityError, NotSupported, TooLarge, HostFailure}

-----------------------------------------------------------------------------
(* Surface-to-data-URL export. *)

DefaultQuality == 8    \* 0.8, qualities being counted in tenths

Returned(value) == [threw |-> FALSE, value |-> value, error |-> NoError]
Threw(error) == [threw |-> TRUE, value |-> <<>>, error |-> error]

\* canvas.toDataURL(type [, quality]): the n-th call on a surface returns a
\* data URL or throws, as the host decides (canvas.outcomes).
toDataURL(canvas, n, type) ==
    IF canvas.outcomes[n] = NoError
    THEN Returned(<<"d","a","t","a",":">> \o StringOf(type) \o <<";","b","a","s","e","6","4",",","A","A","A","A">>)
    ELSE Threw(canvas.outcomes[n])

\* The record of one toDataURL call: its arguments.
EncoderCall(type, quality) == [type |-> type, quality |-> quality]

\* A variant that falls back on every failure.
AlwaysFallback(error) == TRUE

\* The fallback condition of the catch block.
ShouldFallback(error) ==
    error.name = "SecurityError" \/ includes(error.message, <<"s","u","p","p","o","r","t","e","d">>)

canvasToDataURL(canvas, mimeType, qualityArg) ==
    LET quality == IF qualityArg = Undefined THEN Num(DefaultQuality) ELSE qualityArg
        firstCall == IF mimeType = Str(<<"i","m","a","g","e","/","p","n","g">>)
                     THEN EncoderCall(mimeType, Undefined)
                     ELSE EncoderCall(mimeType, quality)
        first == toDataURL(canvas, 1, mimeType)
        second == toDataURL(canvas, 2, Str(<<"i","m","a","g","e","/","j","p","e","g">>))
    IN  IF ~first.threw
        THEN first @@ [encoderCalls |-> <<firstCall>>]
        ELSE IF ShouldFallback(first.error)
        THEN second @@ [encoderCalls |->
                          <<firstCall, EncoderCall(Str(<<"i","m","a","g","e","/","j","p","e","g">>), quality)>>]
        ELSE Threw(first.error) @@ [encoderCalls |-> <<firstCall>>]

-----------------------------------------------------------------------------
(* Download orchestration. *)

\* The host's behaviour during one downloadFile call: which collaborator, if
\* any, throws, and what it throws.
NoFailure == [failAt |-> "none", error |-> NoError]
Fails(env, step) == env.failAt = step

\* The effects of a call so far.
Effects ==
    [ threw |-> FALSE, error |-> NoError, downloadName |-> <<>>,
      downloadData |-> <<>>, urlCreated |-> FALSE, encoderCalls |-> <<>>,
      linkCreated |-> FALSE, attached |-> FALSE, clicked |-> FALSE,
      timerSet |-> FALSE ]

Raise(eff, error) == [eff EXCEPT !.threw = TRUE, !.error = error]

\* URL.createObjectURL: a fresh blob: URL per call.
createObjectURL(eff, env, nUrl) ==
    IF Fails(env, "createObjectURL") THEN Raise(eff, env.error)
    ELSE [eff EXCEPT !.downloadData = <<"b","l","o","b",":">> \o <<DigitChars[nUrl + 2]>>,
                     !.urlCreated = TRUE]

\* options.quality, options defaulting to {} when not passed
OptionsQuality(options) == IF options = Undefined THEN Undefined ELSE options.quality

\* Lines 38-54: data normalised into something an anchor can point at.
Normalize(eff, data, mimeType, options, env, nUrl) ==
    IF data.t = "string" /\ startsWith(data.s, <<"d","a","t","a",":">>)
    THEN [eff EXCEPT !.downloadData = data.s]
    ELSE IF data.t = "canvas"
    THEN IF options = Null THEN Raise(eff, OptionsIsNull)
         ELSE LET q == OptionsQuality(options)
                  r == canvasToDataURL(data, mimeType,
                                       IF Truthy(q) THEN q ELSE Num(DefaultQuality))
              IN  [eff EXCEPT !.threw = r.threw, !.error = r.error,
                              !.downloadData = r.value,
                              !.encoderCalls = r.encoderCalls]
    ELSE createObjectURL(eff, env, nUrl)

\* Lines 56-69: the anchor is created, inserted, clicked and removed, and the
\* release of a blob: URL is scheduled.
Trigger(eff, env) ==
    IF Fails(env, "createElement") THEN Raise(eff, env.error)
    ELSE LET e1 == [eff EXCEPT !.linkCreated = TRUE]
         IN  IF Fails(env, "appendChild") THEN Raise(e1, env.error)
             ELSE LET e2 == [e1 EXCEPT !.attached = TRUE]
                  IN  IF Fails(env, "click") THEN Raise(e2, env.error)
                      ELSE LET e3 == [e2 EXCEPT !.clicked = TRUE]
                           IN  IF Fails(env, "removeChild") THEN Raise(e3, env.error)
                               ELSE [e3 EXCEPT !.attached = FALSE,
                                               !.timerSet =
                                                   startsWith(e3.downloadData, <<"b","l","o","b",":">>)]

\* The body of the try block (lines 25-71).
TryBlock(data, filename, format, options, env, nUrl) ==
    IF ~Truthy(data) \/ ~Truthy(filename) \/ ~Truthy(format)
    THEN Raise(Effects, MissingParameters)
    ELSE IF format.t # "string" THEN Raise(Effects, FormatNotString)
    ELSE IF filename.t # "string" THEN Raise(Effects, FilenameNotString)
    ELSE LET fileExtension == getFileExtension(format.s)
             mimeType == getMimeType(format.s)
             cleanName == cleanFilename(filename.s)
             downloadName == cleanName \o <<"-","c","o","n","v","e","r","t","e","d",".">> \o StringOf(fileExtension)
             named == [Effects EXCEPT !.downloadName = downloadName]
             norm == Normalize(named, data, mimeType, options, env, nUrl)
         IN  IF norm.threw THEN norm ELSE Trigger(norm, env)

Success(filename) == [success |-> TRUE, filename |-> filename]
Failure(error, suggestion) ==
    [success |-> FALSE, error |-> error, suggestion |-> suggestion]

\* A variant that logs the failure and lets it go on to the caller.
RethrowingCatch(error) ==
    [completion |-> "thrown",
     result |-> Failure(error.message, getErrorSuggestion(error))]

\* The catch block (lines 73-80).
Catch(error) ==
    [completion |-> "returned",
     result |-> Failure(error.message, getErrorSuggestion(error))]

downloadFile(data, filename, format, options, env, nUrl) ==
    LET eff == TryBlock(data, filename, format, options, env, nUrl)
    IN  eff @@ (IF eff.threw THEN Catch(eff.error)
                ELSE [completion |-> "returned", result |-> Success(eff.downloadName)])

-----------------------------------------------------------------------------
(* Inputs. *)

RECURSIVE Concats(_, _)
\* The concatenations of at most n of the given pieces.
Concats(pieces, n) ==
    IF n = 0 THEN {<<>>}
    ELSE LET shorter == Concats(pieces, n - 1)
         IN  shorter \cup {s \o p : s \in shorter, p \in pieces}

\* Every letter-case variant of a token.
Casings(s) ==
    { [i \in 1..Len(s) |-> IF i \in U THEN toUpperChar(s[i]) ELSE s[i]] :
        U \in SUBSET (1..Len(s)) }

RecognizedTokens == {p[1] : p \in extensions}

FormatTokens ==
    UNION {Casings(tok) : tok \in RecognizedTokens}
      \cup { <<>>, <<"e","x","e">>, <<"b","m","p">>, <<"j","p","e","g","s">>, <<"i","m","a","g","e","/","p","n","g">>, <<".","p","n","g">>, <<"p"," ","n"," ","g">>,
             <<"c","o","n","s","t","r","u","c","t","o","r">>, <<"C","o","n","s","t","r","u","c","t","o","r">>, <<"_","_","p","r","o","t","o","_","_">>, <<"t","o","S","t","r","i","n","g">>,
             <<"t","o","s","t","r","i","n","g">>, <<"v","a","l","u","e","O","f">>, <<"f","i","l","e">> }

FilenameSegments ==
    { <<"M","y"," ","F","i","l","e"," ","v","2">>, <<".","2">>, <<".","j","p","g">>, <<"d","i","r","/">>, <<"r","e","p","o","r","t","-","f","i","n","a","l","_","0","1","2","3","4","5","6","7","8","9","A","B","C","D">> }

FilenameInputs == Concats(FilenameSegments, MaxSegs)

MessageParts ==
    { <<"S","e","c","u","r","i","t","y","E","r","r","o","r",":"," ">>, <<"c","r","o","s","s","-","o","r","i","g","i","n">>, <<"n","o","t"," ","s","u","p","p","o","r","t","e","d">>, <<"F","o","r","m","a","t"," ">>,
      <<"s","i","z","e">>, <<" ","t","o","o"," ","L","A","R","G","E">>, <<"f","a","i","l","e","d">> }

MessageInputs == Concats(MessageParts, MaxParts)

Canvas(first, second) == [t |-> "canvas", outcomes |-> <<first, second>>]
Blob == [t |-> "blob"]
Options(quality) == [t |-> "options", quality |-> quality]

Canvases ==
    {Canvas(o1, o2) : o1 \in {NoError} \cup HostErrors, o2 \in {NoError, SecurityError}}

DataURL == Str(<<"d","a","t","a",":","i","m","a","g","e","/","p","n","g",";","b","a","s","e","6","4",",","i","V","B","O","R">>)

DataInputs ==
    { Null, Undefined, Str(<<>>), Num(0), DataURL, Str(<<"h","e","l","l","o">>), Str(<<"b","l","o","b",":","f","a","k","e">>),
      Num(42), Blob,
      Canvas(NoError, NoError), Canvas(SecurityError, NoError),
      Canvas(NotSupported, SecurityError), Canvas(TooLarge, NoError) }

NameInputs == { Null, Str(<<>>), Num(7), Str(<<"p","h","o","t","o",".","p","n","g">>), Str(<<"M","y"," ","F","i","l","e"," ","v","2",".","2",".","j","p","g">>) }

FormatInputs ==
    { Undefined, Str(<<>>), Num(5), Str(<<"J","P","E","G">>), Str(<<"p","n","g">>), Str(<<"e","x","e">>),
      Str(<<"c","o","n","s","t","r","u","c","t","o","r">>) }

QualityInputs == { Undefined, Num(0), Num(3), Num(10) }

OptionsInputs == { Undefined, Null } \cup {Options(q) : q \in QualityInputs}

MimeInputs ==
    { Str(<<"i","m","a","g","e","/","p","n","g">>), Str(<<"i","m","a","g","e","/","j","p","e","g">>), Str(<<"i","m","a","g","e","/","w","e","b","p">>),
      Str(<<"a","p","p","l","i","c","a","t","i","o","n","/","o","c","t","e","t","-","s","t","r","e","a","m">>) }

Steps == {"createObjectURL", "createElement", "appendChild", "click", "removeChild"}

EnvInputs ==
    {NoFailure} \cup {[failAt |-> s, error |-> e] : s \in Steps,
                                                    e \in {SecurityError, HostFailure}}

-----------------------------------------------------------------------------
(* State. *)

NoCall == [fn |-> "none"]

HostInit ==
    /\ calls = <<>>
    /\ body = {}
    /\ liveURLs = {}
    /\ revocations = <<>>
    /\ timers = {}
    /\ urlCount = 0

HostVars == <<calls, body, liveURLs, revocations, timers, urlCount>>

\* One downloadFile invocation, run to completion: the function has no await,
\* so nothing interleaves with it.
DownloadFileOn(dataSet, nameSet, formatSet, optionsSet, envSet, maxCalls) ==
    /\ Len(calls) < maxCalls
    /\ \E data \in dataSet, filename \in nameSet, format \in formatSet,
          options \in optionsSet, env \in envSet :
          \E out \in {downloadFile(data, filename, format, options, env, urlCount)} :
              LET id == Len(calls) + 1
              IN  /\ calls' = Append(calls,
                         out @@ [id |-> id, data |-> data, filename |-> filename,
                                 format |-> format, options |-> options, env |-> env])
                  /\ body' = IF out.attached THEN body \cup {id} ELSE body
                  /\ liveURLs' = IF out.urlCreated
                                 THEN liveURLs \cup {out.downloadData} ELSE liveURLs
                  /\ urlCount' = IF out.urlCreated THEN urlCount + 1 ELSE urlCount
                  /\ timers' = IF out.timerSet
                               THEN timers \cup {[owner |-> id, url |-> out.downloadData]}
                               ELSE timers
    /\ UNCHANGED <<arg, ret, revocations>>

\* The callback of setTimeout(() => URL.revokeObjectURL(downloadData), 100).
TimerFire ==
    /\ \E timer \in timers :
          /\ timers' = timers \ {timer}
          /\ liveURLs' = liveURLs \ {timer.url}
          /\ revocations' = Append(revocations, timer)
    /\ UNCHANGED <<arg, ret, calls, body, urlCount>>

-----------------------------------------------------------------------------
(* Concurrent downloads: several invocations and their timers. *)

Init == arg = NoCall /\ ret = NoCall /\ HostInit

DownloadFile ==
    DownloadFileOn({DataURL, Str(<<"h","e","l","l","o">>), Blob, Canvas(NoError, NoError)},
                   {Str(<<"p","h","o","t","o",".","p","n","g">>)}, {Str(<<"p","n","g">>)}, {Undefined},
                   {NoFailure} \cup {[failAt |-> s, error |-> HostFailure] : s \in Steps},
                   MaxCalls)

Next == DownloadFile \/ TimerFire

Spec == Init /\ [][Next]_vars

(* One invocation, over every kind of argument and host failure. *)

DownloadFileAny ==
    DownloadFileOn(DataInputs, NameInputs, FormatInputs, OptionsInputs, EnvInputs, 1)

NextCall == DownloadFileAny \/ TimerFire

SpecCall == Init /\ [][NextCall]_vars

(* Format resolution on its own. *)

InitFormat == arg \in {[format |-> f] : f \in FormatTokens} /\ ret = NoCall /\ HostInit

CallGetFileExtension ==
    /\ ret = NoCall
    /\ ret' = [fn |-> "getFileExtension", value |-> getFileExtension(arg.format)]
    /\ UNCHANGED <<arg, HostVars>>

CallGetMimeType ==
    /\ ret = NoCall
    /\ ret' = [fn |-> "getMimeType", value |-> getMimeType(arg.format)]
    /\ UNCHANGED <<arg, HostVars>>

NextFormat == CallGetFileExtension \/ CallGetMimeType

SpecFormat == InitFormat /\ [][NextFormat]_vars

(* Filename sanitization, on its own and inside a download. *)

InitClean ==
    arg \in {[filename |-> f] : f \in FilenameInputs} /\ ret = NoCall /\ HostInit

CallCleanFilename ==
    /\ ret = NoCall
    /\ ret' = [fn |-> "cleanFilename", value |-> cleanFilename(arg.filename)]
    /\ UNCHANGED <<arg, HostVars>>

DownloadNamed ==
    /\ arg.filename # <<>>
    /\ DownloadFileOn({DataURL, Blob}, {Str(arg.filename)},
                      {Str(<<"J","P","E","G">>), Str(<<"e","x","e">>)}, {Undefined}, {NoFailure}, 1)

NextClean == CallCleanFilename \/ DownloadNamed \/ TimerFire

SpecClean == InitClean /\ [][NextClean]_vars

(* Error suggestions on their own. *)

InitSuggest ==
    arg \in {[message |-> m] : m \in MessageInputs} /\ ret = NoCall /\ HostInit

CallGetErrorSuggestion ==
    /\ ret = NoCall
    /\ ret' = [fn |-> "getErrorSuggestion", value |-> getErrorSuggestion(arg)]
    /\ UNCHANGED <<arg, HostVars>>

NextSuggest == CallGetErrorSuggestion

SpecSuggest == InitSuggest /\ [][NextSuggest]_vars

(* Surface export on its own. *)

InitCanvas ==
    /\ arg \in {[canvas |-> c, mimeType |-> m, quality |-> q] :
                   c \in Canvases, m \in MimeInputs, q \in QualityInputs}
    /\ ret = NoCall
    /\ HostInit

CallCanvasToDataURL ==
    /\ ret = NoCall
    /\ ret' = [fn |-> "canvasToDataURL"]
                @@ canvasToDataURL(arg.canvas, arg.mimeType, arg.quality)
    /\ UNCHANGED <<arg, HostVars>>

NextCanvas == CallCanvasToDataURL

SpecCanvas == InitCanvas /\ [][NextCanvas]_vars

-----------------------------------------------------------------------------
(* Properties. *)

Hints == {SecurityHint, FormatHint, SizeHint, GenericHint}

Calls == {calls[i] : i \in 1..Len(calls)}

\* C1: downloadFile never lets a failure escape: whatever the arguments and
\* whichever collaborator throws, every invocation completes by returning
\* either {success: true, filename} or {success: false, error, suggestion},
\* the suggestion being one of the canned hints.
C1_NoFailureEscapes ==
    \A c \in Calls :
        /\ c.completion = "returned"
        /\ \/ /\ c.result.success
              /\ DOMAIN c.result = {"success", "filename"}
              /\ ~c.threw
           \/ /\ ~c.result.success
              /\ DOMAIN c.result = {"success", "error", "suggestion"}
              /\ c.result.error = c.error.message
              /\ c.result.suggestion \in Hints

\* A collaborator threw in the middle of a call (the click), and the call
\* still returned a failure result.
C1_Witness ==
    \E c \in Calls :
        /\ c.env.failAt = "click"
        /\ c.threw /\ c.error = c.env.error
        /\ c.completion = "returned" /\ ~c.result.success

Absent(v) == v \in {Null, Undefined, Str(<<>>)}

\* C4: when data, filename or format is absent (null, undefined or empty),
\* the result is {success: false, error: "Missing required parameters for
\* download", suggestion: the generic retry hint}, whatever the other
\* arguments are.
C4_MissingParameters ==
    \A c \in Calls :
        Absent(c.data) \/ Absent(c.filename) \/ Absent(c.format) =>
            c.result = Failure(<<"M","i","s","s","i","n","g"," ","r","e","q","u","i","r","e","d"," ","p","a","r","a","m","e","t","e","r","s"," ","f","o","r"," ","d","o","w","n","l","o","a","d">>,
                               "Please try again or use a different file.")

\* downloadFile(null, "photo.png", "png") has been called and has failed.
C4_Witness ==
    \E c \in Calls :
        /\ c.data = Null /\ c.filename = Str(<<"p","h","o","t","o",".","p","n","g">>) /\ c.format = Str(<<"p","n","g">>)
        /\ ~c.result.success

\* C10: for a canvas, the encoder gets the caller's options.quality for every
\* supplied value in [0,1], 0 included, and 0.8 only when none is supplied; a
\* PNG target is encoded without a quality argument.
C10_QualityPassedThrough ==
    \A c \in Calls :
        c.data.t = "canvas" /\ c.encoderCalls # <<>> =>
            LET supplied == IF c.options \in {Undefined, Null} THEN Undefined
                            ELSE c.options.quality
                expected == IF supplied = Undefined THEN Num(8) ELSE supplied
                first == c.encoderCalls[1]
            IN  IF first.type = Str(<<"i","m","a","g","e","/","p","n","g">>)
                THEN first.quality = Undefined
                ELSE first.quality = expected

\* C2: every object URL a downloadFile invocation creates is released exactly
\* once, after that invocation's click and by that invocation's own timer; no
\* invocation releases another's URL; a data-URL input creates and releases
\* none.  As a state predicate: a created URL that is still live has its
\* owner's timer pending (so that it will be released), and every release was
\* made by the timer of the invocation that created the URL, after its click,
\* and only once.
C2_ObjectURLsReleasedOnce ==
    /\ \A c \in Calls :
          c.urlCreated /\ c.downloadData \in liveURLs =>
              [owner |-> c.id, url |-> c.downloadData] \in timers
    /\ \A k \in 1..Len(revocations) :
          LET r == revocations[k]
          IN  /\ calls[r.owner].urlCreated
              /\ calls[r.owner].downloadData = r.url
              /\ calls[r.owner].clicked
              /\ \A j \in 1..Len(revocations) : revocations[j].url = r.url => j = k
    /\ \A c \in Calls :
          c.data.t = "string" /\ startsWith(c.data.s, <<"d","a","t","a",":">>) =>
              /\ ~c.urlCreated
              /\ \A t \in timers : t.owner # c.id
              /\ \A k \in 1..Len(revocations) : revocations[k].owner # c.id

\* C3: once a downloadFile call has returned, with success true or false, the
\* anchor it created is no longer attached to the document.
C3_AnchorTransient ==
    \A c \in Calls : c.completion = "returned" => c.id \notin body

-----------------------------------------------------------------------------

IsSecurityRestriction(error) == error.name = "SecurityError"
IsUnsupportedFormat(error) == includes(error.message, <<"s","u","p","p","o","r","t","e","d">>)

\* C5: canvasToDataURL calls the encoder at most twice.  A first attempt that
\* fails with a security restriction or an unsupported-format condition is
\* retried exactly once, as image/jpeg at the same quality, and a failure of
\* the retry propagates; any other first failure propagates unchanged with no
\* retry.
C5_RetryOnceAsJpeg ==
    ret.fn = "canvasToDataURL" =>
        LET first == arg.canvas.outcomes[1]
            second == arg.canvas.outcomes[2]
            quality == IF arg.quality = Undefined THEN Num(8) ELSE arg.quality
            n == Len(ret.encoderCalls)
        IN  /\ n <= 2
            /\ first = NoError => n = 1 /\ ~ret.threw
            /\ first # NoError /\ (IsSecurityRestriction(first) \/ IsUnsupportedFormat(first)) =>
                  /\ n = 2
                  /\ ret.encoderCalls[2] = [type |-> Str(<<"i","m","a","g","e","/","j","p","e","g">>), quality |-> quality]
                  /\ second # NoError => ret.threw /\ ret.error = second
                  /\ second = NoError => ~ret.threw
            /\ first # NoError /\ ~(IsSecurityRestriction(first) \/ IsUnsupportedFormat(first)) =>
                  n = 1 /\ ret.threw /\ ret.error = first

\* An unsupported-format failure was retried as JPEG and the retry failed too.
C5_Witness ==
    /\ ret.fn = "canvasToDataURL"
    /\ arg.canvas.outcomes = <<NotSupported, SecurityError>>
    /\ Len(ret.encoderCalls) = 2
    /\ ret.threw /\ ret.error = SecurityError

-----------------------------------------------------------------------------

DocumentedFormats ==
    { [token |-> <<"j","p","e","g">>, ext |-> <<"j","p","g">>, mime |-> <<"i","m","a","g","e","/","j","p","e","g">>],
      [token |-> <<"j","p","g">>, ext |-> <<"j","p","g">>, mime |-> <<"i","m","a","g","e","/","j","p","e","g">>],
      [token |-> <<"p","n","g">>, ext |-> <<"p","n","g">>, mime |-> <<"i","m","a","g","e","/","p","n","g">>],
      [token |-> <<"w","e","b","p">>, ext |-> <<"w","e","b","p">>, mime |-> <<"i","m","a","g","e","/","w","e","b","p">>],
      [token |-> <<"g","i","f">>, ext |-> <<"g","i","f">>, mime |-> <<"i","m","a","g","e","/","g","i","f">>],
      [token |-> <<"p","d","f">>, ext |-> <<"p","d","f">>, mime |-> <<"a","p","p","l","i","c","a","t","i","o","n","/","p","d","f">>],
      [token |-> <<"t","x","t">>, ext |-> <<"t","x","t">>, mime |-> <<"t","e","x","t","/","p","l","a","i","n">>],
      [token |-> <<"t","e","x","t">>, ext |-> <<"t","x","t">>, mime |-> <<"t","e","x","t","/","p","l","a","i","n">>],
      [token |-> <<"j","s","o","n">>, ext |-> <<"j","s","o","n">>, mime |-> <<"a","p","p","l","i","c","a","t","i","o","n","/","j","s","o","n">>] }

\* C6: a token that is not one of the nine recognized ones, compared without
\* regard to case, resolves to extension "file" and MIME type
\* application/octet-stream; a recognized token in any letter case resolves
\* to its fixed pairing.
C6_LookupTotal ==
    ret # NoCall =>
        LET known == {d \in DocumentedFormats : d.token = toLowerCase(arg.format)}
            ext == IF known = {} THEN <<"f","i","l","e">> ELSE (CHOOSE d \in known : TRUE).ext
            mime == IF known = {} THEN <<"a","p","p","l","i","c","a","t","i","o","n","/","o","c","t","e","t","-","s","t","r","e","a","m">>
                    ELSE (CHOOSE d \in known : TRUE).mime
        IN  /\ ret.fn = "getFileExtension" => ret.value = Str(ext)
            /\ ret.fn = "getMimeType" => ret.value = Str(mime)

-----------------------------------------------------------------------------

FilenameAlphabet ==
    Range(<<"A","B","C","D","E","F","G","H","I","J","K","L","M","N","O","P","Q","R","S","T","U","V","W","X","Y","Z","a","b","c","d","e","f","g","h","i","j","k","l","m","n","o","p","q","r","s","t","u","v","w","x","y","z","0","1","2","3","4","5","6","7","8","9","_","-">>)

IsSafeStem(s) == Len(s) <= 50 /\ Range(s) \subseteq FilenameAlphabet

\* C7: cleanFilename returns at most 50 characters, each in [A-Za-z0-9_-];
\* the filename a successful downloadFile reports is that stem followed by
\* "-converted." and the resolved extension.
C7_SafeStem ==
    /\ ret.fn = "cleanFilename" => IsSafeStem(ret.value)
    /\ \A c \in Calls :
          c.result.success =>
              \E n \in 0..50 :
                  /\ n <= Len(c.result.filename)
                  /\ IsSafeStem(SubSeq(c.result.filename, 1, n))
                  /\ (ret.fn = "cleanFilename" => SubSeq(c.result.filename, 1, n) = ret.value)
                  /\ SubSeq(c.result.filename, n + 1, Len(c.result.filename))
                        = <<"-","c","o","n","v","e","r","t","e","d",".">> \o StringOf(getFileExtension(c.format.s))

\* A filename longer than 50 characters was cleaned and cut, and a download
\* of it succeeded.
C7_Witness ==
    /\ ret.fn = "cleanFilename"
    /\ Len(arg.filename) > 50 /\ Len(ret.value) = 50
    /\ \E c \in Calls : c.result.success /\ c.filename = Str(arg.filename)

\* C8 as stated: cleanFilename("My File v2.2.jpg") returns "My_File_v2".
C8_AsStated ==
    ret.fn = "cleanFilename" /\ arg.filename = <<"M","y"," ","F","i","l","e"," ","v","2",".","2",".","j","p","g">> =>
        ret.value = <<"M","y","_","F","i","l","e","_","v","2">>

\* C8, amended: cleanFilename("My File v2.2.jpg") returns "My_File_v2_2":
\* only the last extension is stripped, and the remaining dot and the spaces
\* are each replaced by "_".
C8_OnlyLastExtensionStripped ==
    ret.fn = "cleanFilename" /\ arg.filename = <<"M","y"," ","F","i","l","e"," ","v","2",".","2",".","j","p","g">> =>
        ret.value = <<"M","y","_","F","i","l","e","_","v","2","_","2">>

\* cleanFilename("My File v2.2.jpg") has been called.
C8_Witness ==
    ret.fn = "cleanFilename" /\ arg.filename = <<"M","y"," ","F","i","l","e"," ","v","2",".","2",".","j","p","g">>

-----------------------------------------------------------------------------

\* C9: getErrorSuggestion is total and first-match-wins over the lower-cased
\* message: security/cross-origin, then supported/format, then size/large,
\* then generic; the result is always one of the four canned hints.
C9_FirstMatchWins ==
    ret.fn = "getErrorSuggestion" =>
        LET m == toLowerCase(arg.message)
            security == includes(m, <<"s","e","c","u","r","i","t","y">>) \/ includes(m, <<"c","r","o","s","s","-","o","r","i","g","i","n">>)
            format == includes(m, <<"s","u","p","p","o","r","t","e","d">>) \/ includes(m, <<"f","o","r","m","a","t">>)
            size == includes(m, <<"s","i","z","e">>) \/ includes(m, <<"l","a","r","g","e">>)
        IN  /\ ret.value \in Hints
            /\ security => ret.value = SecurityHint
            /\ ~security /\ format => ret.value = FormatHint
            /\ ~security /\ ~format /\ size => ret.value = SizeHint
            /\ ~security /\ ~format /\ ~size => ret.value = GenericHint

\* A message naming a security, a format and a size problem got the security
\* hint.
C9_Witness ==
    /\ ret.fn = "getErrorSuggestion"
    /\ arg.message = <<"S","e","c","u","r","i","t","y","E","r","r","o","r",":"," ">> \o <<"n","o","t"," ","s","u","p","p","o","r","t","e","d">> \o <<" ","t","o","o"," ","L","A","R","G","E">>
    /\ ret.value = SecurityHint

====
